---- MODULE Spec2Model ----
(***************************************************************************)
(* Model of the financial metrics aggregation code of acm_analysis:        *)
(*   - utils/calculations.py: calculate_cagr                               *)
(*   - financial_data/processors/metrics_calculator.py: compute_cagr       *)
(*   - financial_data/data_processor.py: process_company_data, the year    *)
(*     loop of _process_yoy_financial_data and the record of one year      *)
(*   - financial_data/processors/metrics_calculator.py: the earnings, use  *)
(*     of earnings and sales analyses                                      *)
(* Python values are modelled as tagged records: None, a number, or the    *)
(* exception a call ends with.  Floating point growth rates are modelled   *)
(* in fixed point, in units of 1/CagrScale, rounded down; the ratios of a  *)
(* year record and of the analyses are exact fractions.                    *)
(***************************************************************************)
EXTENDS Integers, Sequences, FiniteSets, TLC

VARIABLES
    values_by_year,   \* the series handed to calculate_cagr / compute_cagr
    cagr_pc,          \* "ready" | "called" | "stripped"
    cagr_fn,          \* the function applied last: "none" | "calculate_cagr" | "compute_cagr"
    cagr_result,      \* the outcome of the last call
    cagr_before,      \* the outcome of calculate_cagr before leading pairs were removed
    pc,               \* position of process_company_data
    start_year,       \* argument of process_company_data
    end_year,         \* most recent fiscal year, derived from today's date
    raw_data,         \* what fetch_all_data returned
    years_to_extract, \* list(range(start_year, end_year + 1))
    year_idx,         \* position of the year loop in years_to_extract (1-based)
    yoy_data,         \* keys of the year -> FinancialData mapping built so far
    error,            \* the exception process_company_data re-raises, or None
    steps_done,       \* the steps of process_company_data completed so far
    year_in,          \* the statements and prices of the year handed to the year builder
    year_pc,          \* "ready" | "built" | "rebuilt"
    year_kwargs,      \* the values computed for the FinancialData(...) call, or the exception
    year_out,         \* the outcome of the iteration: the record or the exception
    year_before,      \* the values computed before the prior balance sheet was changed
    records,          \* the year -> record mapping handed to the MetricsCalculator
    calc_pc,          \* "ready" | "called"
    calc_fn,          \* the method applied last
    calc_result,      \* the outcome of the last call
    revenue_segmentation, \* the year -> segment -> value mapping handed to the MetricsCalculator
    key_order,        \* the insertion order of the years of the mapping handed over
    stmt_list,        \* the list handed to _find_statement_for_year
    find_year,        \* the year handed to _find_statement_for_year
    find_pc,          \* "ready" | "called"
    find_result,      \* what _find_statement_for_year returned
    raw_output,       \* the "data" mapping handed to transform_final_output
    tf_pc,            \* the loop transform_final_output is in
    tf_idx,           \* position of that loop in sorted_years (1-based)
    metrics,          \* the local variable metrics of transform_final_output
    profit_description_data, \* year -> total_expenses written so far
    balance_sheet_data,      \* year -> balance sheet entry written so far
    all_categories,   \* the category list handed to get_subcategories
    parent_id,        \* the parent handed to the outermost get_subcategories
    call_stack,       \* the frames of get_subcategories, innermost last
    sub_pc,           \* "ready" | "running" | "returned" | "raised"
    subcats_result    \* what the outermost get_subcategories returned

cagr_vars == <<values_by_year, cagr_pc, cagr_fn, cagr_result, cagr_before>>

run_vars == <<pc, start_year, end_year, raw_data, years_to_extract, year_idx,
              yoy_data, error, steps_done>>

year_vars == <<year_in, year_pc, year_kwargs, year_out, year_before>>

calc_vars == <<records, calc_pc, calc_fn, calc_result, revenue_segmentation, key_order>>

find_vars == <<stmt_list, find_year, find_pc, find_result>>

transform_vars == <<raw_output, tf_pc, tf_idx, metrics, profit_description_data,
                    balance_sheet_data>>

sub_vars == <<all_categories, parent_id, call_stack, sub_pc, subcats_result>>

vars == <<values_by_year, cagr_pc, cagr_fn, cagr_result, cagr_before,
          pc, start_year, end_year, raw_data, years_to_extract, year_idx,
          yoy_data, error, steps_done,
          year_in, year_pc, year_kwargs, year_out, year_before,
          records, calc_pc, calc_fn, calc_result, revenue_segmentation, key_order,
          stmt_list, find_year, find_pc, find_result,
          raw_output, tf_pc, tf_idx, metrics, profit_description_data,
          balance_sheet_data,
          all_categories, parent_id, call_stack, sub_pc, subcats_result>>

(***************************************************************************)
(* Bounds of the model.                                                    *)
(***************************************************************************)
MaxLen == 3        \* longest series handed to the growth calculator
BaseYear == 2019   \* first calendar year of the model
NumYears == 3      \* number of calendar years of the model
NumCalcYears == 7  \* number of calendar years of a sales history
MaxVal == 2        \* greatest value of a series
NumCategories == 3 \* number of forum categories
MaxDepth == 4      \* frames that may nest before the interpreter raises RecursionError
CagrScale == 10    \* fixed point unit of a growth rate: 1/CagrScale

(***************************************************************************)
(* Python values.                                                          *)
(***************************************************************************)
None == [tag |-> "None"]
Num(n) == [tag |-> "num", n |-> n]
Raised(exc) == [tag |-> "raise", exc |-> exc]

IsNone(v) == v.tag = "None"
IsNum(v) == v.tag = "num"
IsRaised(v) == v.tag = "raise"

YearSet == BaseYear .. (BaseYear + NumYears - 1)
ValueSet == {None} \cup {Num(n) : n \in (-1) .. MaxVal}
PairSet == YearSet \X ValueSet
SeriesSet == UNION {[1 .. n -> PairSet] : n \in 0 .. MaxLen}

(***************************************************************************)
(* utils/calculations.py: calculate_cagr                                   *)
(***************************************************************************)
RECURSIVE Pow(_, _)
Pow(b, e) == IF e = 0 THEN 1 ELSE b * Pow(b, e - 1)

\* (end_value / begin_value) ** (1 / periods) - 1, for begin_value > 0,
\* end_value > 0 and periods > 0, in units of 1/CagrScale, rounded down.
GrowthRate(begin_value, end_value, periods) ==
    CHOOSE g \in (-CagrScale) .. (CagrScale * end_value) :
        /\ Pow(CagrScale + g, periods) * begin_value <= end_value * Pow(CagrScale, periods)
        /\ end_value * Pow(CagrScale, periods) < Pow(CagrScale + g + 1, periods) * begin_value

years_of(s) == [i \in 1 .. Len(s) |-> s[i][1]]
vals_of(s) == [i \in 1 .. Len(s) |-> s[i][2]]

\* the length check left out
InsufficientData_Missing(s) == Len(s) < 0

\* line 22: fewer than two data points
InsufficientData(s) == Len(s) < 2

\* the periods check made only after the scan
InvalidPeriods_Missing(years) == Len(years) < 0

\* line 33: periods of the unanchored first and last pair
InvalidPeriods(years) == years[Len(years)] - years[1] <= 0

\* vals[idx] is None or vals[idx] <= 0
NonPositive(v) == IF IsNone(v) THEN TRUE ELSE v.n <= 0

\* lines 37-40: the anchoring scan; the result is the 1-based position of the
\* first strictly positive value, or Len(vals) + 1 when there is none.
RECURSIVE ScanFrom(_, _)
ScanFrom(vals, idx) ==
    IF idx <= Len(vals) /\ NonPositive(vals[idx])
    THEN ScanFrom(vals, idx + 1)
    ELSE idx

\* the scan carried on to the latest strictly positive value before the last
AnchorIndex_LatestPositive(vals) ==
    LET first == ScanFrom(vals, 1)
    IN  IF first >= Len(vals) THEN first
        ELSE CHOOSE i \in first .. Len(vals) - 1 :
                 /\ ~NonPositive(vals[i])
                 /\ \A j \in i + 1 .. Len(vals) - 1 : NonPositive(vals[j])

AnchorIndex(vals) == ScanFrom(vals, 1)

\* the check for a scan that ran off the end left out
NoAnchor_Missing(vals, idx) == idx > Len(vals) + 1

\* line 42: no positive start value
NoAnchor(vals, idx) == idx > Len(vals)

\* line 56: Python evaluates the three comparisons left to right and stops at
\* the first that is true; comparing None with 0 raises TypeError.
AfterAdjustment(begin_value, end_value, periods) ==
    IF IsNone(begin_value) THEN Raised("TypeError")
    ELSE IF begin_value.n <= 0 THEN None
    ELSE IF IsNone(end_value) THEN Raised("TypeError")
    ELSE IF end_value.n <= 0 THEN None
    ELSE IF periods <= 0 THEN None
    ELSE Num(GrowthRate(begin_value.n, end_value.n, periods))

\* the periods of the unanchored series kept after the scan
Anchored_StalePeriods(years, vals, idx) ==
    [begin_value |-> vals[idx], end_value |-> vals[Len(vals)],
     periods |-> years[Len(years)] - years[1]]

\* the position of the last strictly positive value at or after idx
RECURSIVE LastPositiveFrom(_, _, _)
LastPositiveFrom(vals, idx, j) ==
    IF j <= idx THEN idx
    ELSE IF NonPositive(vals[j]) THEN LastPositiveFrom(vals, idx, j - 1)
    ELSE j

\* the end of the series re-anchored to its last positive value
Anchored_ReanchoredEnd(years, vals, idx) ==
    [begin_value |-> vals[idx],
     end_value |-> vals[LastPositiveFrom(vals, idx, Len(vals))],
     periods |-> years[Len(years)] - years[idx]]

\* lines 47-51: begin value, end value and periods after the scan
Anchored(years, vals, idx) ==
    IF idx > 1
    THEN [begin_value |-> vals[idx], end_value |-> vals[Len(vals)],
          periods |-> years[Len(years)] - years[idx]]
    ELSE [begin_value |-> vals[1], end_value |-> vals[Len(vals)],
          periods |-> years[Len(years)] - years[1]]

calculate_cagr(s) ==
    IF InsufficientData(s) THEN None
    ELSE IF Len(s) = 0 THEN Raised("IndexError")     \* vals[0] of an empty list
    ELSE LET years == years_of(s)
             vals == vals_of(s)
             idx == AnchorIndex(vals)
         IN  IF InvalidPeriods(years) THEN None
             ELSE IF NoAnchor(vals, idx) THEN None
             ELSE IF idx > Len(vals) THEN Raised("IndexError")   \* vals[idx] past the end
             ELSE LET a == Anchored(years, vals, idx)
                  IN  AfterAdjustment(a.begin_value, a.end_value, a.periods)

(***************************************************************************)
(* processors/metrics_calculator.py: MetricsCalculator.compute_cagr        *)
(***************************************************************************)
\* x * 100 in Python: None * 100 raises TypeError
Times100(x) ==
    IF IsRaised(x) THEN x
    ELSE IF IsNone(x) THEN Raised("TypeError")
    ELSE Num(x.n * 100)

compute_cagr(s) == IF Len(s) > 0 THEN Times100(calculate_cagr(s)) ELSE None

(***************************************************************************)
(* The growth calculator applied to a series.                              *)
(***************************************************************************)
StrictlyAscending(s) == \A i \in 1 .. Len(s) - 1 : s[i][1] < s[i + 1][1]

\* the first k pairs of s all have a value that is None or <= 0
LeadingNonPositive(s, k) ==
    /\ k >= 1
    /\ k <= Len(s)
    /\ \A i \in 1 .. k : NonPositive(s[i][2])

\* process_company_data is not running
RunIdle ==
    /\ pc = "idle"
    /\ start_year = BaseYear
    /\ end_year = None
    /\ raw_data = None
    /\ years_to_extract = <<>>
    /\ year_idx = 1
    /\ yoy_data = {}
    /\ error = None
    /\ steps_done = <<>>

\* no year is being built
YearIdle ==
    /\ year_pc = "idle"
    /\ year_in = None
    /\ year_kwargs = None
    /\ year_out = None
    /\ year_before = None

\* no MetricsCalculator method is being applied
CalcIdle ==
    /\ calc_pc = "idle"
    /\ records = <<>>
    /\ calc_fn = "none"
    /\ calc_result = None
    /\ revenue_segmentation = <<>>
    /\ key_order = <<>>

\* no statement is being looked up
FindIdle ==
    /\ find_pc = "idle"
    /\ stmt_list = <<>>
    /\ find_year = BaseYear
    /\ find_result = None

\* transform_final_output is not running
TransformIdle ==
    /\ tf_pc = "idle"
    /\ raw_output = <<>>
    /\ tf_idx = 1
    /\ metrics = None
    /\ profit_description_data = <<>>
    /\ balance_sheet_data = <<>>

\* get_subcategories is not running
SubIdle ==
    /\ sub_pc = "idle"
    /\ all_categories = <<>>
    /\ parent_id = 1
    /\ call_stack = <<>>
    /\ subcats_result = <<>>

\* none of the stand-alone functions is running
OthersIdle == FindIdle /\ TransformIdle /\ SubIdle

\* no growth rate is being computed
CagrIdle ==
    /\ values_by_year = <<>>
    /\ cagr_pc = "idle"
    /\ cagr_fn = "none"
    /\ cagr_result = None
    /\ cagr_before = None

InitCagr ==
    /\ values_by_year \in SeriesSet
    /\ cagr_pc = "ready"
    /\ cagr_fn = "none"
    /\ cagr_result = None
    /\ cagr_before = None
    /\ RunIdle
    /\ YearIdle
    /\ CalcIdle
    /\ OthersIdle

CallCalculateCagr ==
    /\ cagr_pc = "ready"
    /\ cagr_pc' = "called"
    /\ cagr_fn' = "calculate_cagr"
    /\ cagr_result' = calculate_cagr(values_by_year)
    /\ UNCHANGED <<values_by_year, cagr_before, run_vars, year_vars, calc_vars, find_vars, transform_vars, sub_vars>>

CallComputeCagr ==
    /\ cagr_pc = "ready"
    /\ cagr_pc' = "called"
    /\ cagr_fn' = "compute_cagr"
    /\ cagr_result' = compute_cagr(values_by_year)
    /\ UNCHANGED <<values_by_year, cagr_before, run_vars, year_vars, calc_vars, find_vars, transform_vars, sub_vars>>

\* calculate_cagr once more, on the series without its k leading pairs
CallOnStripped ==
    /\ cagr_pc = "called"
    /\ cagr_fn = "calculate_cagr"
    /\ StrictlyAscending(values_by_year)
    /\ \E k \in 1 .. MaxLen :
        /\ LeadingNonPositive(values_by_year, k)
        /\ values_by_year' = SubSeq(values_by_year, k + 1, Len(values_by_year))
    /\ cagr_pc' = "stripped"
    /\ cagr_before' = cagr_result
    /\ cagr_result' = calculate_cagr(values_by_year')
    /\ UNCHANGED <<cagr_fn, run_vars, year_vars, calc_vars, find_vars, transform_vars, sub_vars>>

\* calculate_cagr once more, on the series with one value strictly between
\* the anchor pair and the last pair replaced
CallOnReplaced ==
    /\ cagr_pc = "called"
    /\ cagr_fn = "calculate_cagr"
    /\ StrictlyAscending(values_by_year)
    /\ \E k \in 1 .. MaxLen, v \in ValueSet :
        /\ AnchorIndex(vals_of(values_by_year)) < k
        /\ k < Len(values_by_year)
        /\ values_by_year' = [values_by_year EXCEPT ![k] = <<values_by_year[k][1], v>>]
    /\ cagr_pc' = "replaced"
    /\ cagr_before' = cagr_result
    /\ cagr_result' = calculate_cagr(values_by_year')
    /\ UNCHANGED <<cagr_fn, run_vars, year_vars, calc_vars, find_vars, transform_vars, sub_vars>>

NextCagr == CallCalculateCagr \/ CallComputeCagr \/ CallOnStripped \/ CallOnReplaced

SpecCagr == InitCagr /\ [][NextCagr]_vars

(***************************************************************************)
(* financial_data/data_processor.py: process_company_data.                 *)
(* A statement is modelled by the year of its "date" field.  The provider  *)
(* returns each statement list newest first, one statement per year.       *)
(***************************************************************************)
\* A string is modelled as the sequence of its characters.
DigitChars == <<"0", "1", "2", "3", "4", "5", "6", "7", "8", "9">>

\* str(year) for a non-negative integer
RECURSIVE Str(_)
Str(n) ==
    IF n < 10 THEN <<DigitChars[n + 1]>>
    ELSE Str(n \div 10) \o <<DigitChars[(n % 10) + 1]>>

\* the "YYYY-MM-DD" date of a statement of fiscal year y ending on month_day
DateString(y, month_day) == Str(y) \o <<"-">> \o month_day

YearEnd == <<"1", "2", "-", "3", "1">>
MidYear == <<"0", "6", "-", "3", "0">>

\* str.startswith
StartsWith(string, prefix) ==
    /\ Len(prefix) <= Len(string)
    /\ SubSeq(string, 1, Len(prefix)) = prefix

\* line 147: stmt.get("date", "")
DateOf(stmt) == IF "date" \in DOMAIN stmt THEN stmt.date ELSE <<>>

RECURSIVE NewestFirst(_)
NewestFirst(S) ==
    IF S = {} THEN <<>>
    ELSE LET m == CHOOSE y \in S : \A z \in S : z <= y
         IN  <<[date |-> DateString(m, YearEnd)]>> \o NewestFirst(S \ {m})

StatementLists == {NewestFirst(S) : S \in SUBSET YearSet}

\* the last statement in list order whose date starts with the year
RECURSIVE FindFrom_LastMatch(_, _, _)
FindFrom_LastMatch(statements, year, i) ==
    IF i > Len(statements) THEN None
    ELSE LET later == FindFrom_LastMatch(statements, year, i + 1)
         IN  IF later # None THEN later
             ELSE IF StartsWith(DateOf(statements[i]), Str(year)) THEN statements[i]
             ELSE None

\* lines 145-152: the first statement in list order whose date starts with
\* the year, or None
RECURSIVE FindFrom(_, _, _)
FindFrom(statements, year, i) ==
    IF i > Len(statements) THEN None
    ELSE IF StartsWith(DateOf(statements[i]), Str(year)) THEN statements[i]
    ELSE FindFrom(statements, year, i + 1)

find_statement_for_year(statements, year) == FindFrom(statements, year, 1)

\* Statements handed to _find_statement_for_year on its own: dated statements
\* of every year (two period ends per year, so that a year can occur twice
\* with different records) and a record without a "date" key.
FindStatements ==
    {[date |-> DateString(y, md), period |-> "FY"] : y \in YearSet, md \in {YearEnd, MidYear}}
        \cup {[period |-> "FY"]}

FindLists == UNION {[1 .. n -> FindStatements] : n \in 0 .. MaxLen}

InitFind ==
    /\ stmt_list \in FindLists
    /\ find_year \in YearSet
    /\ find_pc = "ready"
    /\ find_result = None
    /\ CagrIdle
    /\ RunIdle
    /\ YearIdle
    /\ CalcIdle
    /\ TransformIdle
    /\ SubIdle

CallFindStatementForYear ==
    /\ find_pc = "ready"
    /\ find_pc' = "called"
    /\ find_result' = find_statement_for_year(stmt_list, find_year)
    /\ UNCHANGED <<stmt_list, find_year, cagr_vars, run_vars, year_vars, calc_vars,
                   transform_vars, sub_vars>>

NextFind == CallFindStatementForYear

SpecFind == InitFind /\ [][NextFind]_vars

\* "if not stmt": None is falsy, a statement with a date is truthy
Found(stmt) == stmt # None

\* calling a dataclass with keyword arguments: a keyword that is no field of
\* the dataclass raises TypeError
DataclassCall(keywords, fields) ==
    IF keywords \subseteq fields THEN None ELSE Raised("TypeError")

\* models.py lines 15-30
FinancialDataFields ==
    {"net_profit", "diluted_eps", "operating_eps", "pe_ratio", "price_low",
     "price_high", "dividends_paid", "dividends_per_share", "avg_dividend_yield",
     "shares_outstanding", "buyback", "share_equity", "book_value_per_share",
     "long_term_debt", "roe", "roc"}

\* data_processor.py lines 248-270
FinancialDataKeywords ==
    {"net_profit", "diluted_eps", "operating_eps", "pe_ratio", "price_low",
     "price_high", "dividends_paid", "dividends_per_share", "avg_dividend_yield",
     "shares_outstanding", "buyback", "share_equity", "book_value_per_share",
     "long_term_debt", "roe", "roc",
     "revenues", "sales_per_share", "operating_margin", "tax_rate",
     "depreciation", "depreciation_pct"}

\* lines 200-271 for a year whose three statements were found.  With numeric
\* fields the arithmetic of lines 200-244 does not raise (every division is
\* guarded by its denominator, the price lookups return None on failure) and
\* the outcome is that of the FinancialData(...) call of lines 247-271; a
\* None operand of that arithmetic raises TypeError as well.
BuildFinancialData == DataclassCall(FinancialDataKeywords, FinancialDataFields)

\* models.py lines 109-121
ProfitDescriptionCharacteristicsFields ==
    {"cagr_external_costs_income_taxes_percent",
     "cagr_external_costs_interest_and_other_income_percent",
     "cagr_revenues_breakdown_percent", "cagr_revenues_percent",
     "cagr_total_expenses_percent", "cagr_ebitda_percent",
     "cagr_free_cash_flow_percent", "cagr_operating_earnings_percent",
     "cagr_total_external_costs_percent", "cagr_earnings_percent",
     "cagr_cost_of_revenue_percent", "cagr_research_and_development_percent",
     "cagr_selling_marketing_general_admin_percent"}

\* data_processor.py line 553: the key every characteristics dict holds
CharacteristicsKeys == {"cagr_external_costs_breakdown_percent"}

\* lines 369-377: ProfitDescriptionCharacteristics(**characteristics)
BuildProfitDescription ==
    DataclassCall(CharacteristicsKeys, ProfitDescriptionCharacteristicsFields)

\* the start year check left out
YearRangeInvalid_Missing(start, end) == start > end /\ start < end

\* line 56
YearRangeInvalid(start, end) == start > end

\* line 60: list(range(start, end + 1))
YearRange(start, end) ==
    IF end < start THEN <<>> ELSE [i \in 1 .. (end - start + 1) |-> start + i - 1]

CurrentYear == years_to_extract[year_idx]

\* the income statement check of lines 188-190 left out
Resolvable_IncomeUnchecked(income, balance, cash_flow) ==
    Found(balance) /\ Found(cash_flow)

\* lines 188-198: the year is built only when the three statements are found
Resolvable(income, balance, cash_flow) ==
    Found(income) /\ Found(balance) /\ Found(cash_flow)

\* an except clause that logs the error and lets the function return
Raise_LoggedOnly(exc) ==
    /\ pc' = "returned"
    /\ error' = Raised(exc)

\* the except clause of lines 130-132: the error is logged and raised again
Raise(exc) ==
    /\ pc' = "raised"
    /\ error' = Raised(exc)

InitRun ==
    /\ pc = "fetch"
    /\ start_year \in YearSet
    /\ end_year = None
    /\ raw_data = None
    /\ years_to_extract = <<>>
    /\ year_idx = 1
    /\ yoy_data = {}
    /\ error = None
    /\ steps_done = <<>>
    /\ CagrIdle
    /\ YearIdle
    /\ CalcIdle
    /\ OthersIdle

\* step 1, line 37: fetch_all_data returns the provider's data.  The
\* profile is a CompanyProfile object (clients/fmp_client.py lines 53-60) or a
\* mapping (the parameter type of transform_company_profile).
Fetch ==
    /\ pc = "fetch"
    /\ \E shape \in {"dict", "CompanyProfile"},
          inc \in StatementLists, bal \in StatementLists, cf \in StatementLists :
          raw_data' = [profile |-> shape, income_statements |-> inc,
                       balance_sheets |-> bal, cash_flows |-> cf]
    /\ pc' = "transform_profile"
    /\ steps_done' = Append(steps_done, "fetch")
    /\ UNCHANGED <<start_year, end_year, years_to_extract, year_idx, yoy_data,
                   error, cagr_vars, year_vars, calc_vars, find_vars, transform_vars, sub_vars>>

\* step 1, data_fetcher.py lines 44-46: a failed request raises FMPError
FetchFails ==
    /\ pc = "fetch"
    /\ Raise("FMPError")
    /\ UNCHANGED <<start_year, end_year, raw_data, years_to_extract, year_idx,
                   yoy_data, steps_done, cagr_vars, year_vars, calc_vars, find_vars, transform_vars, sub_vars>>

\* step 2, line 40: raw_profile.get(...) needs a mapping
TransformProfile ==
    /\ pc = "transform_profile"
    /\ IF raw_data.profile = "dict"
       THEN /\ pc' = "derive_end_year"
            /\ steps_done' = Append(steps_done, "transform_profile")
            /\ UNCHANGED error
       ELSE /\ Raise("AttributeError")
            /\ UNCHANGED steps_done
    /\ UNCHANGED <<start_year, end_year, raw_data, years_to_extract, year_idx,
                   yoy_data, cagr_vars, year_vars, calc_vars, find_vars, transform_vars, sub_vars>>

\* step 3, lines 43-44: derive_fiscal_year depends on today's date
DeriveEndYear ==
    /\ pc = "derive_end_year"
    /\ \E y \in YearSet : end_year' = Num(y)
    /\ pc' = "validate"
    /\ steps_done' = Append(steps_done, "derive_end_year")
    /\ UNCHANGED <<start_year, raw_data, years_to_extract, year_idx, yoy_data,
                   error, cagr_vars, year_vars, calc_vars, find_vars, transform_vars, sub_vars>>

\* step 5, lines 55-61
Validate ==
    /\ pc = "validate"
    /\ IF YearRangeInvalid(start_year, end_year.n)
       THEN /\ Raise("ValueError")
            /\ UNCHANGED <<years_to_extract, steps_done>>
       ELSE /\ years_to_extract' = YearRange(start_year, end_year.n)
            /\ pc' = "yoy"
            /\ steps_done' = Append(steps_done, "validate")
            /\ UNCHANGED error
    /\ year_idx' = 1
    /\ UNCHANGED <<start_year, end_year, raw_data, yoy_data, cagr_vars, year_vars, calc_vars, find_vars, transform_vars, sub_vars>>

\* step 6, lines 181-273: one iteration of the year loop
ProcessYear ==
    /\ pc = "yoy"
    /\ year_idx <= Len(years_to_extract)
    /\ LET income == find_statement_for_year(raw_data.income_statements, CurrentYear)
           balance == find_statement_for_year(raw_data.balance_sheets, CurrentYear)
           cash_flow == find_statement_for_year(raw_data.cash_flows, CurrentYear)
       IN  IF ~Resolvable(income, balance, cash_flow)
           THEN \* continue
                /\ year_idx' = year_idx + 1
                /\ UNCHANGED <<pc, error, yoy_data>>
           ELSE IF IsRaised(BuildFinancialData)
           THEN /\ Raise(BuildFinancialData.exc)
                /\ UNCHANGED <<year_idx, yoy_data>>
           ELSE /\ yoy_data' = yoy_data \cup {CurrentYear}
                /\ year_idx' = year_idx + 1
                /\ UNCHANGED <<pc, error>>
    /\ UNCHANGED <<start_year, end_year, raw_data, years_to_extract, steps_done,
                   cagr_vars, year_vars, calc_vars, find_vars, transform_vars, sub_vars>>

\* step 7, lines 70-75 and 598-607: int(market_cap) raises TypeError when the
\* newest key metrics hold a null marketCap
CompanyDescription ==
    /\ pc = "yoy"
    /\ year_idx > Len(years_to_extract)
    /\ \E market_cap \in {None, Num(0), Num(1)} :
          IF IsNone(market_cap)
          THEN /\ Raise("TypeError")
               /\ steps_done' = Append(steps_done, "yoy")
          ELSE /\ pc' = "analyses"
               /\ steps_done' = steps_done \o <<"yoy", "company_description">>
               /\ UNCHANGED error
    /\ UNCHANGED <<start_year, end_year, raw_data, years_to_extract, year_idx,
                   yoy_data, cagr_vars, year_vars, calc_vars, find_vars, transform_vars, sub_vars>>

\* step 8, lines 285-316: over an empty mapping every list of pairs is empty
\* and no characteristic is computed.  Over a record, compute_sales_analysis
\* reads data.revenues, which is no attribute of FinancialData (models.py
\* lines 15-30).
ProcessAnalyses ==
    /\ pc = "analyses"
    /\ IF yoy_data = {}
       THEN /\ pc' = "profit_description"
            /\ steps_done' = Append(steps_done, "analyses")
            /\ UNCHANGED error
       ELSE /\ Raise("AttributeError")
            /\ UNCHANGED steps_done
    /\ UNCHANGED <<start_year, end_year, raw_data, years_to_extract, year_idx,
                   yoy_data, cagr_vars, year_vars, calc_vars, find_vars, transform_vars, sub_vars>>

\* step 9, lines 318-378
ProcessProfitDescription ==
    /\ pc = "profit_description"
    /\ IF IsRaised(BuildProfitDescription)
       THEN /\ Raise(BuildProfitDescription.exc)
            /\ UNCHANGED steps_done
       ELSE /\ pc' = "balance_sheet"
            /\ steps_done' = Append(steps_done, "profit_description")
            /\ UNCHANGED error
    /\ UNCHANGED <<start_year, end_year, raw_data, years_to_extract, year_idx,
                   yoy_data, cagr_vars, year_vars, calc_vars, find_vars, transform_vars, sub_vars>>

Next ==
    \/ Fetch
    \/ FetchFails
    \/ TransformProfile
    \/ DeriveEndYear
    \/ Validate
    \/ ProcessYear
    \/ CompanyDescription
    \/ ProcessAnalyses
    \/ ProcessProfitDescription

Spec == InitRun /\ [][Next]_vars

(***************************************************************************)
(* financial_data/data_processor.py lines 200-273: the record of one year  *)
(* whose income statement, balance sheet and cash-flow statement were      *)
(* found.  A statement maps each key to its value or to Absent; a number   *)
(* is held exactly, as the fraction n/d in lowest terms.                   *)
(***************************************************************************)
MaxDeviations == 2   \* number of inputs of a year that differ from the plain year

Absent == [tag |-> "Absent"]

RECURSIVE GCD(_, _)
GCD(a, b) == IF b = 0 THEN a ELSE GCD(b, a % b)

AbsInt(n) == IF n < 0 THEN -n ELSE n

Frac(n, d) ==
    LET sign == IF d < 0 THEN -1 ELSE 1
        g == GCD(AbsInt(n), AbsInt(d))
    IN  [tag |-> "num", n |-> (sign * n) \div g, d |-> (sign * d) \div g]

Zero == Frac(0, 1)
One == Frac(1, 1)

\* bool(v) of a number or None
Truthy(v) == IF IsNum(v) THEN v.n # 0 ELSE FALSE

\* a / b
Div(a, b) ==
    IF IsRaised(a) THEN a
    ELSE IF IsRaised(b) THEN b
    ELSE IF IsNone(a) \/ IsNone(b) THEN Raised("TypeError")
    ELSE IF b.n = 0 THEN Raised("ZeroDivisionError")
    ELSE Frac(a.n * b.d, a.d * b.n)

\* a + b
Add(a, b) ==
    IF IsRaised(a) THEN a
    ELSE IF IsRaised(b) THEN b
    ELSE IF IsNone(a) \/ IsNone(b) THEN Raised("TypeError")
    ELSE Frac(a.n * b.d + b.n * a.d, a.d * b.d)

\* a * b
Mul(a, b) ==
    IF IsRaised(a) THEN a
    ELSE IF IsRaised(b) THEN b
    ELSE IF IsNone(a) \/ IsNone(b) THEN Raised("TypeError")
    ELSE Frac(a.n * b.n, a.d * b.d)

\* x * 100
Pct(x) == Mul(x, Frac(100, 1))

\* the sign of the cash-flow figure kept
AbsOf_SignKept(a) ==
    IF IsRaised(a) THEN a
    ELSE IF IsNone(a) THEN Raised("TypeError")
    ELSE a

\* lines 234 and 237: abs(a)
AbsOf(a) ==
    IF IsRaised(a) THEN a
    ELSE IF IsNone(a) THEN Raised("TypeError")
    ELSE Frac(AbsInt(a.n), a.d)

\* the denominator not tested
IfElseNone_Unguarded(c, x) == x

\* lines 206-250: "x if c else None"
IfElseNone(c, x) ==
    IF IsRaised(c) THEN c
    ELSE IF Truthy(c) THEN x
    ELSE None

\* stmt.get(key, default)
Get(stmt, key, default) == IF stmt[key] = Absent THEN default ELSE stmt[key]

\* lines 278-283
get_prev_year_equity(prev_year_bs) ==
    IF Found(prev_year_bs)
    THEN Get(prev_year_bs, "totalStockholdersEquity", Zero)
    ELSE Zero

\* the first exception of a list of values in evaluation order, or None
RECURSIVE FirstRaised(_)
FirstRaised(values) ==
    IF values = <<>> THEN None
    ELSE IF IsRaised(Head(values)) THEN Head(values)
    ELSE FirstRaised(Tail(values))

\* lines 200-271: the values of the keyword arguments of FinancialData(...),
\* or the first exception of their computation
YearArithmetic(in) ==
    LET income == in.income
        balance == in.balance
        cash_flow == in.cash_flow
        key_metric == in.key_metric
        total_revenue == Get(income, "revenue", Zero)
        shares_outstanding == Get(income, "weightedAverageShsOut", Zero)
        operating_income == Get(income, "operatingIncome", Zero)
        sales_per_share ==
            IfElseNone(shares_outstanding, Div(total_revenue, shares_outstanding))
        operating_margin ==
            IfElseNone(total_revenue, Pct(Div(operating_income, total_revenue)))
        tax_expense == Get(income, "incomeTaxExpense", Zero)
        income_before_tax == Get(income, "incomeBeforeTax", Zero)
        tax_rate ==
            IfElseNone(income_before_tax, Pct(Div(tax_expense, income_before_tax)))
        depreciation == Get(income, "depreciationAndAmortization", Zero)
        net_income == Get(income, "netIncome", Zero)
        depreciation_pct ==
            IfElseNone(net_income, Pct(Div(depreciation, net_income)))
        avg_equity ==
            Div(Add(Get(balance, "totalStockholdersEquity", Zero),
                    get_prev_year_equity(in.prev_balance)),
                Frac(2, 1))
        roe == IfElseNone(avg_equity, Pct(Div(net_income, avg_equity)))
        total_capital == Add(avg_equity, Get(balance, "totalDebt", Zero))
        roc == IfElseNone(total_capital, Pct(Div(operating_income, total_capital)))
        book_value == Get(balance, "totalStockholdersEquity", Zero)
        book_value_per_share ==
            IfElseNone(shares_outstanding, Div(book_value, shares_outstanding))
        buyback == AbsOf(Get(cash_flow, "commonStockRepurchased", Zero))
        dividends_paid == AbsOf(Get(cash_flow, "dividendsPaid", Zero))
        dividends_per_share == Get(income, "dividendPerShare", Zero)
        dividend_yield ==
            IF Found(key_metric) THEN Get(key_metric, "dividendYield", Zero) ELSE None
        pe_ratio ==
            IF Found(key_metric) THEN Get(key_metric, "peRatio", None) ELSE None
        operating_eps ==
            IfElseNone(shares_outstanding,
                       Div(Get(income, "operatingIncome", None), shares_outstanding))
        raised ==
            FirstRaised(<<sales_per_share, operating_margin, tax_rate,
                          depreciation_pct, avg_equity, roe, total_capital, roc,
                          book_value_per_share, buyback, dividends_paid,
                          operating_eps>>)
    IN  IF IsRaised(raised) THEN raised
        ELSE [tag |-> "kwargs",
              net_profit |-> net_income,
              diluted_eps |-> Get(income, "epsDiluted", None),
              operating_eps |-> operating_eps,
              pe_ratio |-> pe_ratio,
              price_low |-> in.price_low,
              price_high |-> in.price_high,
              dividends_paid |-> dividends_paid,
              dividends_per_share |-> dividends_per_share,
              avg_dividend_yield |-> dividend_yield,
              shares_outstanding |-> shares_outstanding,
              buyback |-> buyback,
              share_equity |-> book_value,
              book_value_per_share |-> book_value_per_share,
              long_term_debt |-> Get(balance, "longTermDebt", None),
              roe |-> roe,
              roc |-> roc,
              revenues |-> total_revenue,
              sales_per_share |-> sales_per_share,
              operating_margin |-> operating_margin,
              tax_rate |-> tax_rate,
              depreciation |-> depreciation,
              depreciation_pct |-> depreciation_pct]

\* lines 200-273: what the iteration of a year ends with, the record stored
\* in yoy_data[year] or the exception
process_year(in) ==
    LET kwargs == YearArithmetic(in)
    IN  IF IsRaised(kwargs) THEN kwargs
        ELSE IF IsRaised(BuildFinancialData) THEN BuildFinancialData
        ELSE kwargs

\* the keys the year builder reads
IncomeKeys ==
    {"revenue", "weightedAverageShsOut", "operatingIncome", "incomeTaxExpense",
     "incomeBeforeTax", "depreciationAndAmortization", "netIncome",
     "dividendPerShare", "epsDiluted"}
BalanceKeys == {"totalStockholdersEquity", "totalDebt", "longTermDebt"}
CashFlowKeys == {"commonStockRepurchased", "dividendsPaid"}
KeyMetricKeys == {"dividendYield", "peRatio"}

\* the statements that may be missing for a year that is built: the key
\* metrics of the year, the balance sheet and the income statement of the
\* year before
OptionalStatements == {"key_metric", "prev_balance", "prev_income"}
PriceSites == {"price_high", "price_low"}

\* the inputs of a year: every key of its statements, the equity and the
\* shares of the year before, the statements that may be missing, the prices
Sites ==
    IncomeKeys \cup BalanceKeys \cup CashFlowKeys \cup KeyMetricKeys
        \cup {"prev_equity", "prev_shares"} \cup OptionalStatements \cup PriceSites

\* in the plain year every statement is found and every input is 1; an input
\* that deviates is a missing statement, a missing price or another price, a
\* key that is absent, null, zero, negative or another number
FieldDeviations == {Absent, None, Zero, Frac(-1, 1), Frac(2, 1)}

DeviationsAt(site) ==
    IF site \in OptionalStatements THEN {None}
    ELSE IF site \in PriceSites THEN {None, Frac(3, 1)}
    ELSE FieldDeviations

RECURSIVE SitesUpTo(_)
SitesUpTo(k) ==
    IF k = 0 THEN {{}}
    ELSE LET smaller == SitesUpTo(k - 1)
         IN  smaller \cup {S \cup {site} : S \in smaller, site \in Sites}

DeviationSet ==
    UNION {{d \in [S -> FieldDeviations \cup {Frac(3, 1)}] :
                \A site \in S : d[site] \in DeviationsAt(site)} :
           S \in SitesUpTo(MaxDeviations)}

Cell(d, site) == IF site \in DOMAIN d THEN d[site] ELSE One

StatementOf(d, keys) == [key \in keys |-> Cell(d, key)]

YearInput(d) ==
    [income |-> StatementOf(d, IncomeKeys),
     balance |-> StatementOf(d, BalanceKeys),
     cash_flow |-> StatementOf(d, CashFlowKeys),
     key_metric |->
        IF "key_metric" \in DOMAIN d THEN None ELSE StatementOf(d, KeyMetricKeys),
     prev_balance |->
        IF "prev_balance" \in DOMAIN d THEN None
        ELSE [totalStockholdersEquity |-> Cell(d, "prev_equity")],
     prev_income |->
        IF "prev_income" \in DOMAIN d THEN None
        ELSE [weightedAverageShsOut |-> Cell(d, "prev_shares")],
     price_high |-> Cell(d, "price_high"),
     price_low |-> Cell(d, "price_low")]

YearInputs == {YearInput(d) : d \in DeviationSet}

InitYear ==
    /\ year_in \in YearInputs
    /\ year_pc = "ready"
    /\ year_kwargs = None
    /\ year_out = None
    /\ year_before = None
    /\ CagrIdle
    /\ RunIdle
    /\ CalcIdle
    /\ OthersIdle

\* one iteration of the year loop, lines 200-273
BuildYear ==
    /\ year_pc = "ready"
    /\ year_pc' = "built"
    /\ year_kwargs' = YearArithmetic(year_in)
    /\ year_out' = process_year(year_in)
    /\ UNCHANGED <<year_in, year_before, cagr_vars, run_vars, calc_vars, find_vars, transform_vars, sub_vars>>

\* the balance sheet of the year before is missing, or holds an equity of 0
PriorEquityMissingOrZero(in) ==
    IF Found(in.prev_balance)
    THEN in.prev_balance.totalStockholdersEquity = Zero
    ELSE TRUE

\* the same year with the other of the two: the balance sheet of the year
\* before missing, or found with an equity of 0
OtherPriorBalance(in) ==
    [in EXCEPT !.prev_balance =
        IF Found(in.prev_balance) THEN None ELSE [totalStockholdersEquity |-> Zero]]

\* the same year built again after the balance sheet of the year before was
\* changed from missing to an equity of 0, or back
RebuildWithOtherPriorBalance ==
    /\ year_pc = "built"
    /\ PriorEquityMissingOrZero(year_in)
    /\ year_pc' = "rebuilt"
    /\ year_in' = OtherPriorBalance(year_in)
    /\ year_before' = year_kwargs
    /\ year_kwargs' = YearArithmetic(year_in')
    /\ year_out' = process_year(year_in')
    /\ UNCHANGED <<cagr_vars, run_vars, calc_vars, find_vars, transform_vars, sub_vars>>

NextYear == BuildYear \/ RebuildWithOtherPriorBalance

SpecYear == InitYear /\ [][NextYear]_vars

(***************************************************************************)
(* financial_data/processors/metrics_calculator.py: the analyses over the  *)
(* year -> record mapping.  A record holds the attributes the methods      *)
(* read; an attribute is None or an integer.                               *)
(***************************************************************************)
BlankRecord ==
    [net_profit |-> None, diluted_eps |-> None, operating_eps |-> None,
     dividends_per_share |-> None, buyback |-> None, revenues |-> None,
     sales_per_share |-> None]

\* records of a dividend history
PayoutRecords ==
    {[BlankRecord EXCEPT !.dividends_per_share = dps, !.operating_eps = eps] :
        dps \in {None, Num(0), Num(1)}, eps \in {None, Num(1), Num(2)}}

\* records of a repurchase history
BuybackRecords ==
    {[BlankRecord EXCEPT !.buyback = b, !.net_profit = np] :
        b \in {None, Num(1)}, np \in {None, Num(-1), Num(1), Num(2)}}

\* records of an earnings history
EarningsRecords ==
    {[BlankRecord EXCEPT !.diluted_eps = d, !.operating_eps = eps] :
        d \in {None, Num(1)}, eps \in {None, Num(-1), Num(1), Num(2)}}

MappingsOver(years, recs) == UNION {[S -> recs] : S \in SUBSET years}

\* a sales history: every year of CalcYears has revenues 1 and sales per
\* share 1, but for at most MaxDeviations years that have no record or
\* another value for one of the two
CalcYears == BaseYear .. (BaseYear + NumCalcYears - 1)

PlainSalesRecord == [BlankRecord EXCEPT !.revenues = Num(1), !.sales_per_share = Num(1)]

SalesDeviations ==
    {Absent}
        \cup {[PlainSalesRecord EXCEPT !.revenues = v] : v \in {None, Num(0), Num(2)}}
        \cup {[PlainSalesRecord EXCEPT !.sales_per_share = v] : v \in {None, Num(0), Num(2)}}

RECURSIVE YearsUpTo(_)
YearsUpTo(k) ==
    IF k = 0 THEN {{}}
    ELSE LET smaller == YearsUpTo(k - 1)
         IN  smaller \cup {S \cup {y} : S \in smaller, y \in CalcYears}

SalesHistory(d) ==
    [y \in {z \in CalcYears : Cell(d, z) # Absent} |->
        IF y \in DOMAIN d THEN d[y] ELSE PlainSalesRecord]

SalesHistories ==
    {SalesHistory(d) : d \in UNION {[S -> SalesDeviations] : S \in YearsUpTo(MaxDeviations)}}

CalcInputs ==
    MappingsOver(YearSet, PayoutRecords) \cup MappingsOver(YearSet, BuybackRecords)
        \cup MappingsOver(YearSet, EarningsRecords) \cup SalesHistories

\* the years of the mapping whose attribute is truthy: "if data.<field>"
TruthyYears(yoy, years, field) == {y \in years : Truthy(yoy[y][field])}

\* sorted(...) of a set of years
RECURSIVE SortedYears(_)
SortedYears(S) ==
    IF S = {} THEN <<>>
    ELSE LET m == CHOOSE y \in S : \A z \in S : y <= z
         IN  <<m>> \o SortedYears(S \ {m})

\* A dict is modelled by the function from its keys and, for the order in
\* which it is iterated, by key_order: the years in insertion order.
\* yoy_data.items(), .keys() and .values() visit the keys in that order.
Items(mapping) == SelectSeq(key_order, LAMBDA y : y \in DOMAIN mapping)

Reversed(seq) == [i \in 1 .. Len(seq) |-> seq[Len(seq) + 1 - i]]

Rotated(seq) == IF Len(seq) = 0 THEN seq ELSE Tail(seq) \o <<Head(seq)>>

\* insertion orders of a mapping over the years S: oldest first, newest
\* first (the order of the provider's statements) and one that is neither
InsertionOrders(S) ==
    {SortedYears(S), Reversed(SortedYears(S)), Rotated(SortedYears(S))}

\* [(year, data.<field>) for year in years if data.<field>], years a list
PairsOf(yoy, years, field) ==
    LET kept == SelectSeq(years, LAMBDA y : Truthy(yoy[y][field]))
    IN  [i \in 1 .. Len(kept) |-> <<kept[i], yoy[kept[i]][field]>>]

\* the pairs left in the order of the comprehension
SortedByYear_AsInserted(pairs) == pairs

\* sorted(pairs): the years of the pairs are distinct, so the tuples are
\* ordered by year
RECURSIVE SortedByYear(_)
SortedByYear(pairs) ==
    IF Len(pairs) = 0 THEN <<>>
    ELSE LET m == CHOOSE i \in 1 .. Len(pairs) :
                      \A j \in 1 .. Len(pairs) : pairs[i][1] <= pairs[j][1]
         IN  <<pairs[m]>> \o
             SortedByYear([i \in 1 .. Len(pairs) - 1 |->
                              IF i < m THEN pairs[i] ELSE pairs[i + 1]])

\* sorted([(year, data.<field>) for ... if data.<field>]), years a list
SortedPairs(yoy, years, field) == SortedByYear(PairsOf(yoy, years, field))

\* self.compute_cagr(sorted(pairs)) if len(pairs) >= 2 else None
CagrOfPairs(pairs) == IF Len(pairs) >= 2 THEN compute_cagr(pairs) ELSE None

\* sum(...) of an attribute over a set of years
RECURSIVE SumOver(_, _, _)
SumOver(yoy, years, field) ==
    IF years = {} THEN 0
    ELSE LET y == CHOOSE z \in years : TRUE
         IN  yoy[y][field].n + SumOver(yoy, years \ {y}, field)

\* round(x, 2), half to even
Round2(x) ==
    IF ~IsNum(x) THEN x
    ELSE LET scaled == x.n * 100
             q == scaled \div x.d
             r == scaled % x.d
         IN  IF 2 * r < x.d THEN Frac(q, 100)
             ELSE IF 2 * r > x.d THEN Frac(q + 1, 100)
             ELSE IF q % 2 = 0 THEN Frac(q, 100)
             ELSE Frac(q + 1, 100)

\* lines 21-37.  A key the method does not set is Absent.
compute_earnings_analysis(yoy) ==
    LET years == DOMAIN yoy
        growth == CagrOfPairs(SortedPairs(yoy, Items(yoy), "operating_eps"))
        diluted_years == TruthyYears(yoy, years, "diluted_eps")
        operating_years == TruthyYears(yoy, years, "operating_eps")
        avg_diluted_eps ==
            Frac(SumOver(yoy, diluted_years, "diluted_eps"), Cardinality(diluted_years))
        avg_operating_eps ==
            Frac(SumOver(yoy, operating_years, "operating_eps"),
                 Cardinality(operating_years))
        quality_percent ==
            IF diluted_years # {} /\ operating_years # {}
            THEN IF Truthy(avg_operating_eps)
                 THEN Round2(Pct(Div(avg_diluted_eps, avg_operating_eps)))
                 ELSE None
            ELSE Absent
    IN  IF IsRaised(growth) THEN growth
        ELSE [tag |-> "dict",
              growth_rate_percent_operating_eps |-> growth,
              quality_percent |-> quality_percent]

\* (data.dividends_per_share / data.operating_eps) * 100 of a year
PayoutOf(data) ==
    Pct(Div(Frac(data.dividends_per_share.n, 1), Frac(data.operating_eps.n, 1)))

\* sum(dividend_payouts)
RECURSIVE SumOfPayouts(_, _)
SumOfPayouts(yoy, years) ==
    IF years = {} THEN Zero
    ELSE LET y == CHOOSE z \in years : TRUE
         IN  Add(PayoutOf(yoy[y]), SumOfPayouts(yoy, years \ {y}))

\* lines 39-60
compute_use_of_earnings_analysis(yoy) ==
    LET years == DOMAIN yoy
        payout_years ==
            TruthyYears(yoy, years, "dividends_per_share")
                \cap TruthyYears(yoy, years, "operating_eps")
        avg_dividend_payout_percent ==
            IF payout_years # {}
            THEN Round2(Div(SumOfPayouts(yoy, payout_years),
                            Frac(Cardinality(payout_years), 1)))
            ELSE Absent
        buyback_years == TruthyYears(yoy, years, "buyback")
        net_profit_years == TruthyYears(yoy, years, "net_profit")
        total_buyback == Frac(SumOver(yoy, buyback_years, "buyback"), 1)
        total_net_profit == Frac(SumOver(yoy, net_profit_years, "net_profit"), 1)
        avg_stock_buyback_percent ==
            IF buyback_years # {} /\ net_profit_years # {}
            THEN IF Truthy(total_net_profit)
                 THEN Round2(Pct(Div(total_buyback, total_net_profit)))
                 ELSE None
            ELSE Absent
    IN  [tag |-> "dict",
         avg_dividend_payout_percent |-> avg_dividend_payout_percent,
         avg_stock_buyback_percent |-> avg_stock_buyback_percent]

\* the growth of revenues and of sales per share over the given list of years
SalesAnalysisOver(yoy, years) ==
    LET revenues == CagrOfPairs(SortedPairs(yoy, years, "revenues"))
        sales_per_share == CagrOfPairs(SortedPairs(yoy, years, "sales_per_share"))
    IN  IF IsRaised(revenues) THEN revenues
        ELSE IF IsRaised(sales_per_share) THEN sales_per_share
        ELSE [tag |-> "dict",
              growth_rate_percent_revenues |-> revenues,
              growth_rate_percent_sales_per_share |-> sales_per_share]

\* lines 62-74
compute_sales_analysis(yoy) == SalesAnalysisOver(yoy, Items(yoy))

SeqToSet(seq) == {seq[i] : i \in 1 .. Len(seq)}

\* the years within the last 5 calendar years
last_5_years_ByCalendarSpan(sorted_years) ==
    SelectSeq(sorted_years, LAMBDA y : y > sorted_years[Len(sorted_years)] - 5)

\* line 81: sorted_years[-5:]
last_5_years(sorted_years) ==
    SubSeq(sorted_years,
           IF Len(sorted_years) > 5 THEN Len(sorted_years) - 4 ELSE 1,
           Len(sorted_years))

\* lines 76-91
compute_sales_analysis_last_5_years(yoy) ==
    LET sorted_years == SortedYears(DOMAIN yoy)
    IN  SalesAnalysisOver(yoy, last_5_years(sorted_years))

\* lines 93-110.  The revenue segmentation maps a year to a dict from
\* segment name to value; the key "cagr_revenues_<segment>_percent" of the
\* result is modelled by the segment name.
SegmentNames == {"A", "B"}

\* values of segment A: an elimination (negative), zero and revenues
SegmentValues == {Num(-1), Num(0), Num(1), Num(2)}

\* the dict of a year: a segment that is not a key of it is Absent;
\* segment B, when reported, has revenues 1
SegmentDicts ==
    {[A |-> a, B |-> b] : a \in SegmentValues \cup {Absent}, b \in {Num(1), Absent}}

\* segments_dict.keys()
SegmentKeys(segments_dict) == {seg \in SegmentNames : segments_dict[seg] # Absent}

Segmentations == MappingsOver(YearSet, SegmentDicts)

\* segments_dict.get(segment)
SegmentGet(segments_dict, segment) ==
    IF segments_dict[segment] # Absent THEN segments_dict[segment] ELSE None

\* lines 97-99
SegmentsOf(segmentation) ==
    UNION {SegmentKeys(segmentation[y]) : y \in DOMAIN segmentation}

\* lines 102-103: the sorted (year, value) pairs of the years in which the
\* value of the segment is truthy
segment_values(segmentation, segment) ==
    LET kept == SelectSeq(Items(segmentation),
                          LAMBDA y : Truthy(SegmentGet(segmentation[y], segment)))
    IN  SortedByYear([i \in 1 .. Len(kept) |->
                         <<kept[i], SegmentGet(segmentation[kept[i]], segment)>>])

\* round(cagr, 2) of a growth rate in percent held in units of 1/CagrScale
RoundPercent(x) == IF IsNum(x) THEN Round2(Frac(x.n, CagrScale)) ELSE x

\* lines 104-108: the entry of a segment
SegmentEntry(segmentation, segment) ==
    LET pairs == segment_values(segmentation, segment)
    IN  IF Len(pairs) >= 2
        THEN RoundPercent(Times100(calculate_cagr(pairs)))
        ELSE None

compute_revenue_breakdown_cagr(segmentation) ==
    LET segments == SegmentsOf(segmentation)
        raising == {seg \in segments : IsRaised(SegmentEntry(segmentation, seg))}
    IN  IF raising # {}
        THEN SegmentEntry(segmentation, CHOOSE seg \in raising : TRUE)
        ELSE [tag |-> "dict",
              entries |-> [seg \in segments |-> SegmentEntry(segmentation, seg)]]

InitCalc ==
    /\ \/ records \in CalcInputs /\ revenue_segmentation = <<>>
       \/ records = <<>> /\ revenue_segmentation \in Segmentations
    /\ key_order \in InsertionOrders(DOMAIN records \cup DOMAIN revenue_segmentation)
    /\ calc_pc = "ready"
    /\ calc_fn = "none"
    /\ calc_result = None
    /\ CagrIdle
    /\ RunIdle
    /\ YearIdle
    /\ OthersIdle

CallRevenueBreakdownCagr ==
    /\ calc_pc = "ready"
    /\ calc_pc' = "called"
    /\ calc_fn' = "compute_revenue_breakdown_cagr"
    /\ calc_result' = compute_revenue_breakdown_cagr(revenue_segmentation)
    /\ UNCHANGED <<records, revenue_segmentation, key_order, cagr_vars, run_vars,
                   year_vars, find_vars, transform_vars, sub_vars>>

CallEarningsAnalysis ==
    /\ calc_pc = "ready"
    /\ calc_pc' = "called"
    /\ calc_fn' = "compute_earnings_analysis"
    /\ calc_result' = compute_earnings_analysis(records)
    /\ UNCHANGED <<records, revenue_segmentation, key_order, cagr_vars, run_vars,
                   year_vars, find_vars, transform_vars, sub_vars>>

CallUseOfEarningsAnalysis ==
    /\ calc_pc = "ready"
    /\ calc_pc' = "called"
    /\ calc_fn' = "compute_use_of_earnings_analysis"
    /\ calc_result' = compute_use_of_earnings_analysis(records)
    /\ UNCHANGED <<records, revenue_segmentation, key_order, cagr_vars, run_vars,
                   year_vars, find_vars, transform_vars, sub_vars>>

CallSalesAnalysis ==
    /\ calc_pc = "ready"
    /\ calc_pc' = "called"
    /\ calc_fn' = "compute_sales_analysis"
    /\ calc_result' = compute_sales_analysis(records)
    /\ UNCHANGED <<records, revenue_segmentation, key_order, cagr_vars, run_vars,
                   year_vars, find_vars, transform_vars, sub_vars>>

CallSalesAnalysisLast5Years ==
    /\ calc_pc = "ready"
    /\ calc_pc' = "called"
    /\ calc_fn' = "compute_sales_analysis_last_5_years"
    /\ calc_result' = compute_sales_analysis_last_5_years(records)
    /\ UNCHANGED <<records, revenue_segmentation, key_order, cagr_vars, run_vars,
                   year_vars, find_vars, transform_vars, sub_vars>>

\* the methods that hand a series to the growth calculator
SeriesMethods ==
    {"compute_earnings_analysis", "compute_sales_analysis",
     "compute_sales_analysis_last_5_years", "compute_revenue_breakdown_cagr"}

\* the method of the given name applied to the mappings
ResultOf(fn) ==
    CASE fn = "compute_earnings_analysis" -> compute_earnings_analysis(records)
      [] fn = "compute_sales_analysis" -> compute_sales_analysis(records)
      [] fn = "compute_sales_analysis_last_5_years" ->
             compute_sales_analysis_last_5_years(records)
      [] fn = "compute_revenue_breakdown_cagr" ->
             compute_revenue_breakdown_cagr(revenue_segmentation)

\* the caller builds the same mapping again, in another insertion order
Reinsert ==
    /\ calc_pc = "called"
    /\ calc_fn \in SeriesMethods
    /\ key_order' \in
           InsertionOrders(DOMAIN records \cup DOMAIN revenue_segmentation) \ {key_order}
    /\ calc_pc' = "reinserted"
    /\ UNCHANGED <<records, revenue_segmentation, calc_fn, calc_result, cagr_vars,
                   run_vars, year_vars, find_vars, transform_vars, sub_vars>>

\* the same method once more, on the mapping built again
CallOnReinserted ==
    /\ calc_pc = "reinserted"
    /\ calc_pc' = "called again"
    /\ calc_result' = ResultOf(calc_fn)
    /\ UNCHANGED <<records, revenue_segmentation, key_order, calc_fn, cagr_vars,
                   run_vars, year_vars, find_vars, transform_vars, sub_vars>>

NextCalc ==
    \/ Reinsert
    \/ CallOnReinserted
    \/ CallEarningsAnalysis
    \/ CallUseOfEarningsAnalysis
    \/ CallSalesAnalysis
    \/ CallSalesAnalysisLast5Years
    \/ CallRevenueBreakdownCagr

SpecCalc == InitCalc /\ [][NextCalc]_vars

(***************************************************************************)
(* financial_data/transformer.py: transform_final_output.  The function is *)
(* followed loop by loop; of the dicts it writes, the model keeps the       *)
(* total_expenses of the profit description and the three totals of the    *)
(* balance sheet, keyed by the year (the code's key is str(year)).          *)
(***************************************************************************)
\* the metrics of a year: a key that is missing is Absent
MetricsDicts ==
    {[cost_of_revenue |-> cor, research_and_development |-> rnd,
      selling_gen_admin |-> Num(1), total_assets |-> assets,
      total_liabilities |-> Num(1), shareholder_equity |-> assets] :
        cor \in {Num(1), None, Absent}, rnd \in {Num(2), Absent},
        assets \in {Num(1), Num(2)}}

\* metrics.get(key)
MetricsGet(metrics_dict, key) ==
    IF metrics_dict[key] = Absent THEN None ELSE metrics_dict[key]

\* line 22
sorted_years == SortedYears(DOMAIN raw_output)

\* lines 97-103
total_expenses_of(metrics_dict) ==
    LET cor == MetricsGet(metrics_dict, "cost_of_revenue")
        rnd == MetricsGet(metrics_dict, "research_and_development")
        sga == MetricsGet(metrics_dict, "selling_gen_admin")
    IN  IF cor # None /\ rnd # None /\ sga # None
        THEN Num(cor.n + rnd.n + sga.n)
        ELSE None

\* the loops of the function, in the order of the code
LoopAfter(loop) ==
    CASE loop = "company_description" -> "analyses"
      [] loop = "analyses" -> "profit_description"
      [] loop = "profit_description" -> "balance_sheet"
      [] loop = "balance_sheet" -> "returned"

InitTransform ==
    /\ raw_output \in MappingsOver(YearSet, MetricsDicts)
    /\ tf_pc = "company_description"
    /\ tf_idx = 1
    /\ metrics = None
    /\ profit_description_data = <<>>
    /\ balance_sheet_data = <<>>
    /\ CagrIdle
    /\ RunIdle
    /\ YearIdle
    /\ CalcIdle
    /\ FindIdle
    /\ SubIdle

\* lines 26-49 and 65-86: an iteration of the company description loop or
\* of the analyses loop binds metrics to the year's dict
DescribeYear ==
    /\ tf_pc \in {"company_description", "analyses"}
    /\ tf_idx <= Len(sorted_years)
    /\ metrics' = raw_output[sorted_years[tf_idx]]
    /\ tf_idx' = tf_idx + 1
    /\ UNCHANGED <<raw_output, tf_pc, profit_description_data, balance_sheet_data,
                   cagr_vars, run_vars, year_vars, calc_vars, find_vars, sub_vars>>

\* lines 94-121: an iteration of the profit description loop
ProfitDescriptionYear ==
    /\ tf_pc = "profit_description"
    /\ tf_idx <= Len(sorted_years)
    /\ metrics' = raw_output[sorted_years[tf_idx]]
    /\ profit_description_data' =
           (sorted_years[tf_idx] :> [total_expenses |-> total_expenses_of(metrics')])
               @@ profit_description_data
    /\ tf_idx' = tf_idx + 1
    /\ UNCHANGED <<raw_output, tf_pc, balance_sheet_data,
                   cagr_vars, run_vars, year_vars, calc_vars, find_vars, sub_vars>>

\* lines 131-152: an iteration of the balance sheet loop, which reads
\* metrics without binding it
BalanceSheetYear ==
    /\ tf_pc = "balance_sheet"
    /\ tf_idx <= Len(sorted_years)
    /\ balance_sheet_data' =
           (sorted_years[tf_idx] :>
                [total_assets |-> MetricsGet(metrics, "total_assets"),
                 total_liabilities |-> MetricsGet(metrics, "total_liabilities"),
                 total_shareholders_equity |-> MetricsGet(metrics, "shareholder_equity")])
               @@ balance_sheet_data
    /\ tf_idx' = tf_idx + 1
    /\ UNCHANGED <<raw_output, tf_pc, metrics, profit_description_data,
                   cagr_vars, run_vars, year_vars, calc_vars, find_vars, sub_vars>>

\* a loop has visited every year: the function goes on to the next loop,
\* and returns after the last
LeaveLoop ==
    /\ tf_pc \in {"company_description", "analyses", "profit_description", "balance_sheet"}
    /\ tf_idx > Len(sorted_years)
    /\ tf_pc' = LoopAfter(tf_pc)
    /\ tf_idx' = 1
    /\ UNCHANGED <<raw_output, metrics, profit_description_data, balance_sheet_data,
                   cagr_vars, run_vars, year_vars, calc_vars, find_vars, sub_vars>>

NextTransform == DescribeYear \/ ProfitDescriptionYear \/ BalanceSheetYear \/ LeaveLoop

SpecTransform == InitTransform /\ [][NextTransform]_vars

(***************************************************************************)
(* summary/post_fetcher.py: WebsiteToolboxFetcher.get_subcategories.  The  *)
(* recursion is followed frame by frame; the interpreter raises            *)
(* RecursionError when the frames nest deeper than its limit.              *)
(***************************************************************************)
CategoryIds == 1 .. NumCategories

\* the "data" lists of the forum: category i of a list has categoryId i and
\* any parentId, None for a top-level category
CategoryLists ==
    UNION {[1 .. n -> {None} \cup {Num(id) : id \in CategoryIds}] : n \in 0 .. NumCategories}

categoryId(i) == Num(i)
parentId(i) == all_categories[i]

\* line 60: the frame of a call
Frame(parent) == [parent_id |-> parent, idx |-> 1, subcats |-> <<>>]

Top == call_stack[Len(call_stack)]

InitSub ==
    /\ all_categories \in CategoryLists
    /\ parent_id \in {Num(id) : id \in CategoryIds}
    /\ call_stack = <<>>
    /\ sub_pc = "ready"
    /\ subcats_result = <<>>
    /\ CagrIdle
    /\ RunIdle
    /\ YearIdle
    /\ CalcIdle
    /\ FindIdle
    /\ TransformIdle

\* line 91 of fetch_all_posts_for_ticker: the outermost call
CallGetSubcategories ==
    /\ sub_pc = "ready"
    /\ sub_pc' = "running"
    /\ call_stack' = <<Frame(parent_id)>>
    /\ UNCHANGED <<all_categories, parent_id, subcats_result,
                   cagr_vars, run_vars, year_vars, calc_vars, find_vars, transform_vars>>

\* lines 62-63: the category is not a child of the frame's parent
SkipCategory ==
    /\ sub_pc = "running"
    /\ Top.idx <= Len(all_categories)
    /\ parentId(Top.idx) # Top.parent_id
    /\ call_stack' = [call_stack EXCEPT ![Len(call_stack)].idx = @ + 1]
    /\ UNCHANGED <<all_categories, parent_id, sub_pc, subcats_result,
                   cagr_vars, run_vars, year_vars, calc_vars, find_vars, transform_vars>>

\* lines 63-65: the category is a child; it is appended and the function
\* calls itself with the child as parent
Descend ==
    /\ sub_pc = "running"
    /\ Top.idx <= Len(all_categories)
    /\ parentId(Top.idx) = Top.parent_id
    /\ Len(call_stack) < MaxDepth
    /\ call_stack' =
           Append([call_stack EXCEPT ![Len(call_stack)].subcats = Append(@, Top.idx)],
                  Frame(categoryId(Top.idx)))
    /\ UNCHANGED <<all_categories, parent_id, sub_pc, subcats_result,
                   cagr_vars, run_vars, year_vars, calc_vars, find_vars, transform_vars>>

\* line 65 at the interpreter's recursion limit: RecursionError, which no
\* frame catches
RecursionError ==
    /\ sub_pc = "running"
    /\ Top.idx <= Len(all_categories)
    /\ parentId(Top.idx) = Top.parent_id
    /\ Len(call_stack) >= MaxDepth
    /\ sub_pc' = "raised"
    /\ call_stack' = <<>>
    /\ UNCHANGED <<all_categories, parent_id, subcats_result,
                   cagr_vars, run_vars, year_vars, calc_vars, find_vars, transform_vars>>

\* lines 65-67: a frame has visited every category and returns its list,
\* which the caller adds to its own before going on with its loop
ReturnSubcats ==
    /\ sub_pc = "running"
    /\ Top.idx > Len(all_categories)
    /\ IF Len(call_stack) = 1
       THEN /\ sub_pc' = "returned"
            /\ subcats_result' = Top.subcats
            /\ call_stack' = <<>>
       ELSE /\ call_stack' =
                   [SubSeq(call_stack, 1, Len(call_stack) - 1)
                       EXCEPT ![Len(call_stack) - 1].subcats = @ \o Top.subcats,
                              ![Len(call_stack) - 1].idx = @ + 1]
            /\ UNCHANGED <<sub_pc, subcats_result>>
    /\ UNCHANGED <<all_categories, parent_id,
                   cagr_vars, run_vars, year_vars, calc_vars, find_vars, transform_vars>>

NextSub ==
    \/ CallGetSubcategories
    \/ SkipCategory
    \/ Descend
    \/ RecursionError
    \/ ReturnSubcats

SpecSub == InitSub /\ [][NextSub]_vars

(***************************************************************************)
(* Properties of the growth calculator (specification SpecCagr).           *)
(***************************************************************************)
CalledCalculateCagr == cagr_pc = "called" /\ cagr_fn = "calculate_cagr"
CalledComputeCagr == cagr_pc = "called" /\ cagr_fn = "compute_cagr"

LastValue(s) == s[Len(s)][2]
FirstYear(s) == s[1][1]
LastYear(s) == s[Len(s)][1]
SomePositive(s) == \E i \in 1 .. Len(s) : ~NonPositive(s[i][2])

\* C1: calculate_cagr never raises: whatever the series of (year, value)
\* pairs with values that are numbers or None, the call returns a growth
\* rate or None.
C1_NeverRaises ==
    CalledCalculateCagr => cagr_result.tag \in {"None", "num"}

\* the growth rate of a non-empty series is unavailable: a single data point,
\* no positive anchor, a non-positive last value, or non-positive periods
GrowthUnavailable(s) ==
    /\ Len(s) >= 1
    /\ \/ Len(s) = 1
       \/ ~SomePositive(s)
       \/ (IsNum(LastValue(s)) /\ LastValue(s).n <= 0)
       \/ LastYear(s) - FirstYear(s) <= 0

\* C2: compute_cagr returns None, and does not raise, for every non-empty
\* series whose growth rate is unavailable.
C2_ComputeCagrNoneWhenUnavailable ==
    (CalledComputeCagr /\ GrowthUnavailable(values_by_year)) => cagr_result = None

\* C3: anchor invariance: for a series with strictly ascending years that
\* begins with k >= 1 values that are None or <= 0, calculate_cagr ends the
\* same way on the series and on the series without those k pairs (the same
\* growth rate, None both times, or the same fault both times).
C3_AnchorInvariant ==
    cagr_pc = "stripped" => cagr_result = cagr_before

\* a series was stripped of leading non-positive pairs and both calls
\* returned a growth rate
C3_Witness ==
    /\ cagr_pc = "stripped"
    /\ IsNum(cagr_result)
    /\ IsNum(cagr_before)
    /\ cagr_result.n # 0

\* the first strictly positive value of s is its last value
AnchorIsLastPair(s) ==
    /\ Len(s) >= 1
    /\ ~NonPositive(LastValue(s))
    /\ \A i \in 1 .. Len(s) - 1 : NonPositive(s[i][2])

\* C4: the end value is the value of the literal last pair: when the last
\* value is <= 0 the result is None even if earlier values are positive, and
\* when the anchor is the last pair the result is None.
C4_EndValueIsLastPair ==
    (CalledCalculateCagr /\ Len(values_by_year) >= 1) =>
        /\ (IsNum(LastValue(values_by_year)) /\ LastValue(values_by_year).n <= 0)
              => cagr_result = None
        /\ AnchorIsLastPair(values_by_year) => cagr_result = None

\* calculate_cagr was applied to a series with valid periods whose last value
\* is <= 0 while an earlier value is positive
C4_Witness ==
    /\ CalledCalculateCagr
    /\ Len(values_by_year) >= 2
    /\ LastYear(values_by_year) - FirstYear(values_by_year) > 0
    /\ IsNum(LastValue(values_by_year))
    /\ LastValue(values_by_year).n <= 0
    /\ SomePositive(values_by_year)
    /\ cagr_result = None

\* C5: for every series with fewer than 2 pairs calculate_cagr returns None.
C5_FewerThanTwoPairs ==
    (CalledCalculateCagr /\ Len(values_by_year) < 2) => cagr_result = None

\* calculate_cagr was applied to the empty series
C5_Witness ==
    /\ CalledCalculateCagr
    /\ Len(values_by_year) = 0
    /\ cagr_result = None

\* every value of s is a number <= 0
AllNonPositiveNumbers(s) ==
    \A i \in 1 .. Len(s) : IsNum(s[i][2]) /\ s[i][2].n <= 0

\* C6: for every series in which every value is <= 0 calculate_cagr returns
\* None, whatever the length and the years of the series.
C6_AllNonPositive ==
    (CalledCalculateCagr /\ AllNonPositiveNumbers(values_by_year)) => cagr_result = None

\* calculate_cagr was applied to a series of MaxLen non-positive numbers whose
\* first and last years give valid periods
C6_Witness ==
    /\ CalledCalculateCagr
    /\ Len(values_by_year) >= 2
    /\ AllNonPositiveNumbers(values_by_year)
    /\ LastYear(values_by_year) - FirstYear(values_by_year) > 0
    /\ cagr_result = None

\* C7: calculate_cagr returns None whenever last_year - first_year <= 0; the
\* check is made on the unanchored first pair, so reversed first and last
\* years give None even if a later anchor year precedes the last year.
C7_InvalidPeriods ==
    (CalledCalculateCagr /\ Len(values_by_year) >= 1
       /\ LastYear(values_by_year) - FirstYear(values_by_year) <= 0)
        => cagr_result = None

\* reversed first and last years, while the anchor (the second pair) has a
\* positive value and a year before the last year, and the last value is positive
C7_Witness ==
    /\ CalledCalculateCagr
    /\ Len(values_by_year) = 3
    /\ LastYear(values_by_year) - FirstYear(values_by_year) < 0
    /\ NonPositive(values_by_year[1][2])
    /\ ~NonPositive(values_by_year[2][2])
    /\ ~NonPositive(values_by_year[3][2])
    /\ values_by_year[3][1] - values_by_year[2][1] > 0
    /\ cagr_result = None

\* C27: for strictly ascending years, replacing a value strictly between the
\* anchor pair and the last pair by any number, zero, a negative number or
\* None leaves the result of calculate_cagr unchanged.
C27_MiddleValuesIrrelevant ==
    cagr_pc = "replaced" => cagr_result = cagr_before

\* a growth rate that survived a middle value replaced by None
C27_Witness ==
    /\ cagr_pc = "replaced"
    /\ cagr_result.tag = "num"
    /\ \E k \in 2 .. Len(values_by_year) - 1 : IsNone(values_by_year[k][2])

(***************************************************************************)
(* Properties of process_company_data (specification Spec).                *)
(***************************************************************************)
EndYearDerived == end_year # None

IncomeFor(y) == find_statement_for_year(raw_data.income_statements, y)
BalanceFor(y) == find_statement_for_year(raw_data.balance_sheets, y)
CashFlowFor(y) == find_statement_for_year(raw_data.cash_flows, y)

\* the year range is valid and the three statements of every requested year
\* were fetched
CompleteStatements ==
    /\ EndYearDerived
    /\ start_year <= end_year.n
    /\ \A y \in start_year .. end_year.n :
          Found(IncomeFor(y)) /\ Found(BalanceFor(y)) /\ Found(CashFlowFor(y))

\* C8: start_year > end_year is the only condition that aborts a run: with
\* start_year <= end_year and income, balance-sheet and cash-flow statements
\* for every requested year, process_company_data does not raise.
C8_OnlyYearRangeAborts ==
    CompleteStatements => pc # "raised"

\* C9: when start_year is greater than the derived end year the run ends with
\* ValueError at the year range check: no year list is made, no per-year
\* record is built and no later step (records, analyses, formatting, saving)
\* has run.
C9_StartAfterEndRaisesValueError ==
    (EndYearDerived /\ start_year > end_year.n /\ pc # "validate") =>
        /\ pc = "raised"
        /\ error = Raised("ValueError")
        /\ years_to_extract = <<>>
        /\ yoy_data = {}
        /\ steps_done = <<"fetch", "transform_profile", "derive_end_year">>

\* the run was aborted by the year range check
C9_Witness ==
    /\ pc = "raised"
    /\ EndYearDerived
    /\ start_year > end_year.n
    /\ error = Raised("ValueError")

\* the years the year loop has been through
ProcessedYears == {years_to_extract[i] : i \in 1 .. (year_idx - 1)}

\* C10: a requested year whose income statement is resolvable gets a record
\* in the year-to-record mapping even when its balance sheet or its cash-flow
\* statement is absent.
C10_IncomeYearKeepsRecord ==
    \A y \in ProcessedYears :
        (Found(IncomeFor(y)) /\ (~Found(BalanceFor(y)) \/ ~Found(CashFlowFor(y))))
            => y \in yoy_data


\* the year loop is at a requested year whose income statement is not found
AtYearWithoutIncome ==
    /\ pc = "yoy"
    /\ year_idx <= Len(years_to_extract)
    /\ ~Found(IncomeFor(CurrentYear))

\* C11: a year is a key of the returned mapping only if its income statement
\* is resolvable, and a requested year without a resolvable income statement
\* is skipped without aborting: the loop moves on to the next requested year
\* with no error and no record for the skipped year.
C11_MissingIncomeYearSkipped ==
    /\ [](\A y \in yoy_data : Found(IncomeFor(y)))
    /\ [][AtYearWithoutIncome =>
            /\ pc' = "yoy"
            /\ error' = None
            /\ year_idx' = year_idx + 1
            /\ yoy_data' = yoy_data]_vars

\* a year without an income statement was skipped and a requested year remains
C11_Witness ==
    /\ pc = "yoy"
    /\ year_idx > 1
    /\ year_idx <= Len(years_to_extract)
    /\ ~Found(IncomeFor(years_to_extract[year_idx - 1]))
    /\ error = None


\* lines 37-122: the steps that come before step 14, the saving of the output
StepsBeforeSave ==
    {"fetch", "transform_profile", "derive_end_year", "validate", "yoy",
     "company_description", "analyses", "profit_description", "balance_sheet",
     "studies", "format"}

StepsDone == {steps_done[i] : i \in 1 .. Len(steps_done)}

Saved == "save" \in StepsDone

YearBuilt == year_pc = "built"

NullOrAbsent(v) == v = None \/ v = Absent

NullKeys(stmt, keys) == {key \in keys : NullOrAbsent(stmt[key])}

\* exactly one key of the three statements of the year is null or absent
SingleNullField ==
    Cardinality(NullKeys(year_in.income, IncomeKeys))
        + Cardinality(NullKeys(year_in.balance, BalanceKeys))
        + Cardinality(NullKeys(year_in.cash_flow, CashFlowKeys)) = 1

\* C12: when a single field of a statement is None or absent for a year
\* (operatingIncome absent while shares outstanding is non-zero, or
\* commonStockRepurchased, dividendsPaid or totalStockholdersEquity null),
\* building the record of the year does not raise.
C12_SingleNullFieldDoesNotRaise ==
    (/\ YearBuilt
     /\ SingleNullField
     /\ \/ /\ year_in.income["operatingIncome"] = Absent
           /\ Truthy(year_in.income["weightedAverageShsOut"])
        \/ year_in.cash_flow["commonStockRepurchased"] = None
        \/ year_in.cash_flow["dividendsPaid"] = None
        \/ year_in.balance["totalStockholdersEquity"] = None)
        => ~IsRaised(year_out)


\* the arithmetic of the year was completed: the keyword values are computed
KwargsComputed == year_pc \in {"built", "rebuilt"} /\ year_kwargs.tag = "kwargs"

ZeroOrMissing(v) == v \in {Zero, None, Absent}

\* twice the average equity: the equity of the year plus that of the year before
EquitySum ==
    Add(Get(year_in.balance, "totalStockholdersEquity", Zero),
        get_prev_year_equity(year_in.prev_balance))

\* average equity plus total debt
TotalCapital ==
    Add(Div(EquitySum, Frac(2, 1)), Get(year_in.balance, "totalDebt", Zero))

\* C13: no per-year ratio is computed with a division fault, and a ratio
\* whose denominator is 0 or missing is null: operating EPS, sales per share
\* and book value per share for shares outstanding, operating margin for
\* revenue, tax rate for income before tax, depreciation percent for net
\* income, ROE for average equity, ROC for average equity plus total debt.
C13_ZeroDenominatorGivesNull ==
    /\ year_kwargs # Raised("ZeroDivisionError")
    /\ year_out # Raised("ZeroDivisionError")
    /\ IF KwargsComputed
       THEN /\ ZeroOrMissing(year_in.income["weightedAverageShsOut"]) =>
                /\ year_kwargs.operating_eps = None
                /\ year_kwargs.sales_per_share = None
                /\ year_kwargs.book_value_per_share = None
            /\ ZeroOrMissing(year_in.income["revenue"]) =>
                year_kwargs.operating_margin = None
            /\ ZeroOrMissing(year_in.income["incomeBeforeTax"]) =>
                year_kwargs.tax_rate = None
            /\ ZeroOrMissing(year_in.income["netIncome"]) =>
                year_kwargs.depreciation_pct = None
            /\ EquitySum = Zero => year_kwargs.roe = None
            /\ TotalCapital = Zero => year_kwargs.roc = None
       ELSE TRUE

\* a year with no shares outstanding and an average equity of 0 was built
C13_Witness ==
    /\ KwargsComputed
    /\ year_in.income["weightedAverageShsOut"] = Zero
    /\ Get(year_in.balance, "totalStockholdersEquity", Zero) # Zero
    /\ EquitySum = Zero
    /\ year_kwargs.operating_eps = None
    /\ year_kwargs.roe = None


\* C14: the dividends paid and the buyback (common stock repurchased) of a
\* year record are non-negative, whether the cash-flow statement reports
\* them as negative outflows or as positive numbers.
C14_OutflowsNonNegative ==
    IF KwargsComputed
    THEN /\ year_kwargs.buyback.n >= 0
         /\ year_kwargs.dividends_paid.n >= 0
         /\ year_kwargs.buyback.n =
                AbsInt(Get(year_in.cash_flow, "commonStockRepurchased", Zero).n)
         /\ year_kwargs.dividends_paid.n =
                AbsInt(Get(year_in.cash_flow, "dividendsPaid", Zero).n)
    ELSE TRUE

\* a year with a negative repurchase figure and a positive dividend figure
C14_Witness ==
    /\ KwargsComputed
    /\ year_in.cash_flow["commonStockRepurchased"] = Frac(-1, 1)
    /\ year_in.cash_flow["dividendsPaid"] = Frac(2, 1)
    /\ year_kwargs.buyback = One
    /\ year_kwargs.dividends_paid = Frac(2, 1)


\* the shares outstanding of the year before, or None
PriorShares ==
    IF Found(year_in.prev_income)
    THEN Get(year_in.prev_income, "weightedAverageShsOut", None)
    ELSE None

\* the midpoint of the high and the low price of the year, or None
AveragePrice ==
    IF IsNone(year_in.price_high) \/ IsNone(year_in.price_low) THEN None
    ELSE Div(Add(year_in.price_high, year_in.price_low), Frac(2, 1))

\* (shares of the year before - shares of the year) * average price; None
\* when one of the three is missing
ShareDeltaBuyback ==
    LET shares == Get(year_in.income, "weightedAverageShsOut", None)
    IN  IF IsNone(PriorShares) \/ IsNone(shares) \/ IsNone(AveragePrice) THEN None
        ELSE Mul(Add(PriorShares, Mul(shares, Frac(-1, 1))), AveragePrice)

\* C15: the buyback value of a year record is (shares outstanding of the
\* previous year - shares outstanding of the year) * average price of the
\* year, and null when there are no prior shares or one of the three
\* operands is missing.
C15_BuybackIsShareDeltaTimesPrice ==
    KwargsComputed => year_kwargs.buyback = ShareDeltaBuyback


\* C16: the output for a year distinguishes "the balance sheet of the prior
\* year was unavailable, so prior equity was taken as zero" from "the equity
\* of the prior year is zero": two inputs that differ only in that respect do
\* not produce identical year records.
C16_PriorEquityProvenanceVisible ==
    (year_pc = "rebuilt" /\ year_kwargs.tag = "kwargs") => year_kwargs # year_before


(***************************************************************************)
(* Properties of the MetricsCalculator (specification SpecCalc).           *)
(***************************************************************************)
Called(fn) == calc_pc = "called" /\ calc_fn = fn

\* the attribute of the dataclass built from the returned dict: a key that
\* is not set takes the default None (models.py lines 39-52)
AttributeOf(value) == IF value = Absent THEN None ELSE value

\* the years in which every one of the fields is present
YearsWithAll(fields) ==
    {y \in DOMAIN records : \A field \in fields : IsNum(records[y][field])}

\* the years in which dividends per share and operating EPS are present and
\* operating EPS is not 0
PayoutYears ==
    {y \in YearsWithAll({"dividends_per_share", "operating_eps"}) :
        records[y].operating_eps.n # 0}

\* the mean of the per-year ratios over PayoutYears, rounded to 2 decimals
MeanPayout ==
    IF PayoutYears = {} THEN None
    ELSE Round2(Div(SumOfPayouts(records, PayoutYears),
                    Frac(Cardinality(PayoutYears), 1)))

\* C17: avg_dividend_payout_percent is the mean of dividends_per_share /
\* operating_eps over exactly the years in which both are present and
\* operating_eps is not 0; a year whose dividends_per_share is 0 is one of
\* those years and contributes a ratio of 0.
C17_PayoutMeanOverPresentYears ==
    Called("compute_use_of_earnings_analysis") =>
        AttributeOf(calc_result.avg_dividend_payout_percent) = MeanPayout

\* the years in which buyback and net profit are both present
BothPresentYears == YearsWithAll({"buyback", "net_profit"})

\* sum(buyback) / sum(net profit) over BothPresentYears, in percent rounded
\* to 2 decimals; None for a total net profit of 0
SummedBuybackRatio ==
    IF BothPresentYears = {} THEN None
    ELSE IF SumOver(records, BothPresentYears, "net_profit") = 0 THEN None
    ELSE Round2(Pct(Div(Frac(SumOver(records, BothPresentYears, "buyback"), 1),
                        Frac(SumOver(records, BothPresentYears, "net_profit"), 1))))

\* C18: avg_stock_buyback_percent is sum(buyback) / sum(net_income) with both
\* sums over the years in which buyback and net income are both present; a
\* year with only one of the two contributes to neither sum; a zero total
\* net income yields null.
C18_BuybackSumsOverSameYears ==
    Called("compute_use_of_earnings_analysis") =>
        AttributeOf(calc_result.avg_stock_buyback_percent) = SummedBuybackRatio

\* the years with an operating EPS, and their operating EPS sums to 0
AverageOperatingEpsZero ==
    /\ YearsWithAll({"operating_eps"}) # {}
    /\ SumOver(records, YearsWithAll({"operating_eps"}), "operating_eps") = 0

\* C19: compute_earnings_analysis yields a null quality_percent, without a
\* fault, whenever the average operating EPS is zero and whenever no year
\* has a diluted EPS or no year has an operating EPS.
C19_QualityNullWithoutFault ==
    (/\ Called("compute_earnings_analysis")
     /\ \/ AverageOperatingEpsZero
        \/ YearsWithAll({"diluted_eps"}) = {}
        \/ YearsWithAll({"operating_eps"}) = {})
        => IF IsRaised(calc_result) THEN FALSE
           ELSE AttributeOf(calc_result.quality_percent) = None

\* the 5 greatest years of the mapping, all of them when there are fewer
FiveGreatestYears ==
    {y \in DOMAIN records : Cardinality({z \in DOMAIN records : z > y}) < 5}

\* C20: compute_sales_analysis_last_5_years uses exactly the records of the
\* 5 greatest years of the mapping, counted by records and not by calendar
\* span, and all records when there are fewer than 5; with at most 5 years
\* its result is that of compute_sales_analysis.
C20_LastFiveRecords ==
    Called("compute_sales_analysis_last_5_years") =>
        /\ calc_result =
               compute_sales_analysis([y \in FiveGreatestYears |-> records[y]])
        /\ Cardinality(DOMAIN records) <= 5 =>
               calc_result = compute_sales_analysis(records)

\* six records over seven calendar years: the oldest record is outside the
\* window, the gap inside the window does not shrink it, and the result
\* differs from that over all records
C20_Witness ==
    /\ Called("compute_sales_analysis_last_5_years")
    /\ Cardinality(DOMAIN records) = 6
    /\ \E y \in CalcYears :
          /\ y \notin DOMAIN records
          /\ \E z \in FiveGreatestYears : z < y
    /\ calc_result.tag = "dict"
    /\ IsNum(calc_result.growth_rate_percent_revenues)
    /\ calc_result # compute_sales_analysis(records)

\* the years in which the segment is a key of the year's dict
SegmentYears(segment) ==
    {y \in DOMAIN revenue_segmentation : revenue_segmentation[y][segment] # Absent}

\* the (year, value) pairs of those years, oldest first
AppearingSeries(segment) ==
    LET ascending == SortedYears(SegmentYears(segment))
    IN  [i \in 1 .. Len(ascending) |->
            <<ascending[i], revenue_segmentation[ascending[i]][segment]>>]

\* C21: compute_revenue_breakdown_cagr returns exactly one entry per segment
\* name of the union of the segment names of all years, and the entry of a
\* segment is the growth over exactly the years in which the segment
\* appears, oldest first.
C21_OneEntryPerSegment ==
    Called("compute_revenue_breakdown_cagr") =>
        IF calc_result.tag # "dict" THEN FALSE
        ELSE /\ DOMAIN calc_result.entries = SegmentsOf(revenue_segmentation)
             /\ \A seg \in SegmentsOf(revenue_segmentation) :
                    LET growth == calculate_cagr(AppearingSeries(seg))
                    IN  IF IsNum(growth)
                        THEN calc_result.entries[seg] = RoundPercent(Times100(growth))
                        ELSE TRUE

\* the latest year of the mapping
LatestYear == CHOOSE y \in DOMAIN records : \A z \in DOMAIN records : z <= y

\* C24: the series of revenues contains every year whose value is not null,
\* a value of 0 included: when the latest year's revenues are 0 the growth
\* of revenues is null.
C24_ZeroLatestYearGivesNull ==
    (/\ Called("compute_sales_analysis")
     /\ DOMAIN records # {}
     /\ records[LatestYear].revenues = Num(0))
        => IF calc_result.tag # "dict" THEN FALSE
           ELSE calc_result.growth_rate_percent_revenues = None

\* C25: the results of compute_earnings_analysis, compute_sales_analysis,
\* compute_sales_analysis_last_5_years and compute_revenue_breakdown_cagr do
\* not depend on the insertion order of the year-to-record mapping or of the
\* revenue segmentation.
C25_InsertionOrderIrrelevant ==
    [][calc_pc' = "called again" => calc_result' = calc_result]_vars

\* a growth of revenues other than 0, computed from a mapping of three or
\* more years inserted newest first
C25_Witness ==
    /\ calc_pc = "called again"
    /\ calc_fn = "compute_sales_analysis"
    /\ Len(key_order) >= 3
    /\ key_order = Reversed(SortedYears(DOMAIN records))
    /\ calc_result.tag = "dict"
    /\ IsNum(calc_result.growth_rate_percent_revenues)
    /\ calc_result.growth_rate_percent_revenues # Num(0)

(***************************************************************************)
(* Properties of _find_statement_for_year (specification SpecFind).         *)
(***************************************************************************)
\* the integer a string of digits stands for
RECURSIVE ParseInt(_)
ParseInt(chars) ==
    IF Len(chars) = 0 THEN 0
    ELSE 10 * ParseInt(SubSeq(chars, 1, Len(chars) - 1))
         + (CHOOSE d \in 0 .. 9 : DigitChars[d + 1] = chars[Len(chars)])

\* the record has a date, and the year written in it is the given year
DatedIn(stmt, year) ==
    IF "date" \in DOMAIN stmt
    THEN ParseInt(SubSeq(stmt.date, 1, 4)) = year
    ELSE FALSE

MatchingIndexes == {i \in 1 .. Len(stmt_list) : DatedIn(stmt_list[i], find_year)}

\* C22: _find_statement_for_year returns the earliest-indexed record whose
\* date's year is the target year, and None (without raising) when no record
\* matches, the empty list and records without a date included.
C22_EarliestMatchOrNone ==
    find_pc = "called" =>
        IF MatchingIndexes = {}
        THEN find_result = None
        ELSE find_result =
                 stmt_list[CHOOSE i \in MatchingIndexes : \A j \in MatchingIndexes : i <= j]

\* two different records of the target year after a record without a date:
\* the earlier of the two is returned
C22_Witness ==
    /\ find_pc = "called"
    /\ Len(stmt_list) = 3
    /\ "date" \notin DOMAIN stmt_list[1]
    /\ MatchingIndexes = {2, 3}
    /\ stmt_list[2] # stmt_list[3]
    /\ find_result = stmt_list[2]

(***************************************************************************)
(* Properties of transform_final_output (specification SpecTransform).     *)
(***************************************************************************)
\* a sub-component of the expenses, a missing one counted as zero
OrZero(v) == IF IsNum(v) THEN v.n ELSE 0

ExpensesSum(metrics_dict) ==
    OrZero(MetricsGet(metrics_dict, "cost_of_revenue"))
        + OrZero(MetricsGet(metrics_dict, "research_and_development"))
        + OrZero(MetricsGet(metrics_dict, "selling_gen_admin"))

\* C26: a year's total expenses are cost_of_revenue + research_and_development
\* + SG&A with each missing sub-component counted as zero: a number
\* whenever the year has a record.
C26_MissingComponentCountsAsZero ==
    \A y \in DOMAIN profit_description_data :
        profit_description_data[y].total_expenses = Num(ExpensesSum(raw_output[y]))

\* C28: the balance sheet entry written for year Y takes its total_assets,
\* total_liabilities and total_shareholders_equity from year Y's own
\* metrics, for every year of the input.
C28_BalanceSheetFromOwnYear ==
    \A y \in DOMAIN balance_sheet_data :
        /\ balance_sheet_data[y].total_assets = MetricsGet(raw_output[y], "total_assets")
        /\ balance_sheet_data[y].total_liabilities =
               MetricsGet(raw_output[y], "total_liabilities")
        /\ balance_sheet_data[y].total_shareholders_equity =
               MetricsGet(raw_output[y], "shareholder_equity")

(***************************************************************************)
(* Properties of get_subcategories (specification SpecSub).                *)
(***************************************************************************)
\* the categories reached from the parent along parentId links in at most
\* k steps
RECURSIVE ReachedWithin(_)
ReachedWithin(k) ==
    IF k = 0 THEN {}
    ELSE LET nearer == ReachedWithin(k - 1)
         IN  nearer \cup {i \in 1 .. Len(all_categories) :
                             \/ parentId(i) = parent_id
                             \/ \E j \in nearer : parentId(i) = categoryId(j)}

Descendants == ReachedWithin(NumCategories)

\* C30: get_subcategories terminates for every category list, one whose
\* parentId links form a cycle included, and returns each descendant of the
\* given parent.
C30_TerminatesWithEachDescendant ==
    /\ sub_pc # "raised"
    /\ sub_pc = "returned" =>
           {subcats_result[i] : i \in 1 .. Len(subcats_result)} = Descendants

====
